---- MODULE Spec2Model ----
(***************************************************************************)
(* Model of img-diff (sbinet/img-diff): the perceptual pixel-diff engine   *)
(* imageDiff/yiqDiff of gui.go and the batch decision of main.             *)
(*                                                                         *)
(* Numbers.  yiqDiff works on float64.  Its inputs are 8-bit channels and  *)
(* its constants are decimals with 8 (YIQ coefficients) and 4 (weights)    *)
(* digits, so the value it computes is, up to float64 rounding (relative   *)
(* error below 1e-13), the rational                                        *)
(*        (5053*Y^2 + 2990*I^2 + 1957*Q^2) / (35215 * 10^20)               *)
(* with Y, I, Q the integer combinations in units of 10^-8.  The model     *)
(* computes this rational exactly.  A value is kept as its numerator over  *)
(* the fixed denominator MetricDen = 35215*10^20.  The numerators need     *)
(* about 100 bits, so they are kept as little-endian sequences of base     *)
(* 10^4 limbs without leading zero limbs (zero is << >>).                  *)
(*                                                                         *)
(* Scope.  The two inputs are *image.RGBA values (the conversion of other  *)
(* image types by newRGBAFrom happens before anything modelled here); the  *)
(* rendering of the histogram (histDiff) and the window are left out.  The *)
(* -max flag takes the values of Thresholds; NaN is not among them.        *)
(***************************************************************************)
EXTENDS Integers, Sequences, FiniteSets, TLC

(***************************************************************************)
(* Multi-limb naturals                                                     *)
(***************************************************************************)
Base == 10000

RECURSIVE Norm(_)
Norm(a) ==
    IF a = << >> THEN << >>
    ELSE IF a[Len(a)] = 0 THEN Norm(SubSeq(a, 1, Len(a) - 1))
    ELSE a

RECURSIVE FromInt(_)
FromInt(n) == IF n = 0 THEN << >> ELSE << n % Base >> \o FromInt(n \div Base)

RECURSIVE ToInt(_)
ToInt(a) == IF a = << >> THEN 0 ELSE Head(a) + Base * ToInt(Tail(a))

RECURSIVE AddC(_, _, _)
AddC(a, b, c) ==
    IF a = << >> /\ b = << >>
    THEN FromInt(c)
    ELSE LET x == IF a = << >> THEN 0 ELSE Head(a)
             y == IF b = << >> THEN 0 ELSE Head(b)
             ta == IF a = << >> THEN << >> ELSE Tail(a)
             tb == IF b = << >> THEN << >> ELSE Tail(b)
             s == x + y + c
         IN  << s % Base >> \o AddC(ta, tb, s \div Base)

BigAdd(a, b) == AddC(a, b, 0)

\* a - b for a >= b
RECURSIVE SubB(_, _, _)
SubB(a, b, br) ==
    IF a = << >> THEN << >>
    ELSE LET y == IF b = << >> THEN 0 ELSE Head(b)
             tb == IF b = << >> THEN << >> ELSE Tail(b)
             d == Head(a) - y - br
         IN  IF d < 0
             THEN << d + Base >> \o SubB(Tail(a), tb, 1)
             ELSE << d >> \o SubB(Tail(a), tb, 0)

BigSub(a, b) == Norm(SubB(a, b, 0))

\* a * m for a small natural m (m < 200000)
RECURSIVE MulC(_, _, _)
MulC(a, m, c) ==
    IF a = << >> THEN FromInt(c)
    ELSE LET p == Head(a) * m + c
         IN  << p % Base >> \o MulC(Tail(a), m, p \div Base)

MulSmall(a, m) == Norm(MulC(a, m, 0))

ShiftLeft(a) == IF a = << >> THEN << >> ELSE << 0 >> \o a

RECURSIVE BigMul(_, _)
BigMul(a, b) ==
    IF b = << >> THEN << >>
    ELSE BigAdd(MulSmall(a, Head(b)), ShiftLeft(BigMul(a, Tail(b))))

\* -1, 0, 1 as a < b, a = b, a > b (both without leading zero limbs)
RECURSIVE CmpTop(_, _)
CmpTop(a, b) ==
    IF a = << >> THEN 0
    ELSE LET n == Len(a)
         IN  IF a[n] < b[n] THEN -1
             ELSE IF a[n] > b[n] THEN 1
             ELSE CmpTop(SubSeq(a, 1, n - 1), SubSeq(b, 1, n - 1))

BigCmp(a, b) ==
    IF Len(a) < Len(b) THEN -1
    ELSE IF Len(a) > Len(b) THEN 1
    ELSE CmpTop(a, b)

\* floor(a / d) for a small positive d (d < 200000)
RECURSIVE DivR(_, _, _)
DivR(a, d, r) ==
    IF a = << >> THEN << >>
    ELSE LET n == Len(a)
             cur == r * Base + a[n]
         IN  DivR(SubSeq(a, 1, n - 1), d, cur % d) \o << cur \div d >>

DivSmall(a, d) == Norm(DivR(a, d, 0))

\* floor(a / Base^k)
DropLimbs(a, k) == IF Len(a) <= k THEN << >> ELSE SubSeq(a, k + 1, Len(a))

(***************************************************************************)
(* Signed values, as a pair pos - neg of naturals                          *)
(***************************************************************************)
Zero == << >>

Signed(p, n) == [pos |-> p, neg |-> n]

SAdd(a, b) == Signed(BigAdd(a.pos, b.pos), BigAdd(a.neg, b.neg))

SSub(a, b) == Signed(BigAdd(a.pos, b.neg), BigAdd(a.neg, b.pos))

\* |a|
SAbs(a) ==
    IF BigCmp(a.pos, a.neg) >= 0 THEN BigSub(a.pos, a.neg) ELSE BigSub(a.neg, a.pos)

\* a * a
SSquare(a) == LET d == SAbs(a) IN BigMul(d, d)

\* channel * 0.dddddddd, in units of 10^-8; the coefficient is given as limbs
Times(ch, coef) == Signed(MulSmall(coef, ch), Zero)

(***************************************************************************)
(* float64 values the program holds: a metric value (or a threshold) is    *)
(* n / MetricDen with n >= 0; the four other values are the ones the code  *)
(* and the command line can produce besides.                               *)
(***************************************************************************)
max == 35215

\* 10^20 = Base^5
DenLimbs == 5

\* 35215 * 10^20
MetricDen == << 0, 0, 0, 0, 0, 5215, 3 >>

Num(n) == [k |-> "num", n |-> n]

PosMaxFloat64 == [k |-> "posmax", n |-> Zero]

NegMaxFloat64 == [k |-> "negmax", n |-> Zero]

NegInf == [k |-> "neginf", n |-> Zero]

PosInf == [k |-> "posinf", n |-> Zero]

Rank(f) ==
    CASE f.k = "neginf" -> 0
      [] f.k = "negmax" -> 1
      [] f.k = "num" -> 2
      [] f.k = "posmax" -> 3
      [] f.k = "posinf" -> 4

\* a > b on float64
FloatGT(a, b) ==
    IF a.k = "num" /\ b.k = "num" THEN BigCmp(a.n, b.n) > 0 ELSE Rank(a) > Rank(b)

\* math.Min, math.Max
MathMin(a, b) == IF FloatGT(a, b) THEN b ELSE a

MathMax(a, b) == IF FloatGT(a, b) THEN a ELSE b

(***************************************************************************)
(* yiqDiff                                                                 *)
(***************************************************************************)
RGBA(r, g, b, a) == [R |-> r, G |-> g, B |-> b, A |-> a]

\* wy*y*y + wi*i*i + wq*q*q for weights in units of 10^-4; the result is in
\* units of 10^-20
yiqWeighted(c1, c2, wy, wi, wq) ==
    LET r1 == c1.R
        g1 == c1.G
        b1 == c1.B
        r2 == c2.R
        g2 == c2.G
        b2 == c2.B
        y1 == SAdd(SAdd(Times(r1, <<9531, 2988>>), Times(g1, <<2247, 5866>>)),
                   Times(b1, <<8223, 1144>>))
        i1 == SSub(SSub(Times(r1, <<7799, 5959>>), Times(g1, <<7610, 2741>>)),
                   Times(b1, <<189, 3218>>))
        q1 == SAdd(SSub(Times(r1, <<7017, 2114>>), Times(g1, <<1711, 5226>>)),
                   Times(b1, <<4694, 3111>>))
        y2 == SAdd(SAdd(Times(r2, <<9531, 2988>>), Times(g2, <<2247, 5866>>)),
                   Times(b2, <<8223, 1144>>))
        i2 == SSub(SSub(Times(r2, <<7799, 5959>>), Times(g2, <<7610, 2741>>)),
                   Times(b2, <<189, 3218>>))
        q2 == SAdd(SSub(Times(r2, <<7017, 2114>>), Times(g2, <<1711, 5226>>)),
                   Times(b2, <<4694, 3111>>))
        y == SSub(y1, y2)
        i == SSub(i1, i2)
        q == SSub(q1, q2)
    IN  BigAdd(BigAdd(MulSmall(SSquare(y), wy), MulSmall(SSquare(i), wi)),
               MulSmall(SSquare(q), wq))

\* a slip: the weights of y and i exchanged
yiqRawSwapped(c1, c2) == yiqWeighted(c1, c2, 2990, 5053, 1957)

\* diff = 0.5053*y*y + 0.299*i*i + 0.1957*q*q
yiqRaw(c1, c2) == yiqWeighted(c1, c2, 5053, 2990, 1957)

\* a slip: normalised by the raw value of black against white (32857.13)
\* instead of max
yiqDiffByBlackWhite(c1, c2) == Num(DivSmall(MulSmall(yiqRaw(c1, c2), max), 32857))

\* diff / max: the numerator over MetricDen = max * 10^20 is the raw value
yiqDiff(c1, c2) == Num(yiqRaw(c1, c2))

\* floor(v * m) for a metric value v and a small natural m
FloorTimes(v, m) == DropLimbs(DivSmall(MulSmall(v.n, m), max), DenLimbs)

(***************************************************************************)
(* image.Point, image.Rectangle                                            *)
(***************************************************************************)
Pt(px, py) == [X |-> px, Y |-> py]

Rect(x0, y0, x1, y1) == [Min |-> Pt(x0, y0), Max |-> Pt(x1, y1)]

ZR == Rect(0, 0, 0, 0)

Empty(r) == r.Min.X >= r.Max.X \/ r.Min.Y >= r.Max.Y

\* the pixel coordinates p with p.In(r)
Pts(r) == { <<px, py>> \in (r.Min.X .. r.Max.X - 1) \X (r.Min.Y .. r.Max.Y - 1) : TRUE }

Max2(a, b) == IF a > b THEN a ELSE b

Min2(a, b) == IF a < b THEN a ELSE b

Intersect(r, s) ==
    LET t == Rect(Max2(r.Min.X, s.Min.X), Max2(r.Min.Y, s.Min.Y),
                  Min2(r.Max.X, s.Max.X), Min2(r.Max.Y, s.Max.Y))
    IN  IF Empty(t) THEN ZR ELSE t

Union(r, s) ==
    IF Empty(r) THEN s
    ELSE IF Empty(s) THEN r
    ELSE Rect(Min2(r.Min.X, s.Min.X), Min2(r.Min.Y, s.Min.Y),
              Max2(r.Max.X, s.Max.X), Max2(r.Max.Y, s.Max.Y))

(***************************************************************************)
(* Inputs: the two decoded images                                          *)
(***************************************************************************)
\* the images lie within the square 0..GridMax x 0..GridMax
GridMax == 2

Rects ==
    {ZR} \cup
    { r \in { Rect(x0, y0, x1, y1) : x0 \in 0 .. GridMax, y0 \in 0 .. GridMax,
                                     x1 \in 0 .. GridMax, y1 \in 0 .. GridMax } :
          ~Empty(r) }

Black == RGBA(0, 0, 0, 255)

White == RGBA(255, 255, 255, 255)

Red == RGBA(255, 0, 0, 255)

Cyan == RGBA(0, 255, 255, 255)

\* transparent black: differs from Black in alpha only
Clear == RGBA(0, 0, 0, 0)

Patterns == {"black", "white", "mixed", "negative"}

Mixed(px, py) ==
    LET k == (px + 2 * py) % 4
    IN  CASE k = 0 -> Clear [] k = 1 -> White [] k = 2 -> Red [] k = 3 -> Cyan

Negative(c) == RGBA(255 - c.R, 255 - c.G, 255 - c.B, 255)

PatternAt(pat, px, py) ==
    CASE pat = "black" -> Black
      [] pat = "white" -> White
      [] pat = "mixed" -> Mixed(px, py)
      [] pat = "negative" -> Negative(Mixed(px, py))

\* an *image.RGBA: its bounds and its pixels
NewImage(r, pat) == [Rect |-> r, Pix |-> [p \in Pts(r) |-> PatternAt(pat, p[1], p[2])]]

\* (*image.RGBA).RGBAAt
RGBAAt(img, px, py) ==
    IF <<px, py>> \in Pts(img.Rect) THEN img.Pix[<<px, py>>] ELSE RGBA(0, 0, 0, 0)

\* the values of the -max flag: -Inf, -MaxFloat64, 0, 0.1 (the default), 0.95
Thresholds ==
    { NegInf, NegMaxFloat64, Num(Zero),
      Num(DivSmall(MetricDen, 10)),
      Num(MulSmall(DivSmall(MetricDen, 100), 95)) }

(***************************************************************************)
(* The difference map and the histogram                                    *)
(***************************************************************************)
MaxUint16 == 65535

\* color.Gray16Model.Convert: the luminance of a colour, 16 bits
Gray16Convert(c) ==
    LET r == FromInt(c.R * 257)
        g == FromInt(c.G * 257)
        b == FromInt(c.B * 257)
        sum == BigAdd(BigAdd(MulSmall(r, 19595), MulSmall(g, 38470)),
                      BigAdd(MulSmall(b, 7471), FromInt(32768)))
    IN  ToInt(DivSmall(sum, 65536))

\* a slip: an opaque white fill
FillColorWhite == RGBA(255, 255, 255, 255)

\* the colour the difference map is filled with: color.RGBA{A: 255}
FillColor == RGBA(0, 0, 0, 255)

\* image.NewGray16 followed by draw.Draw(diff, diff.Bounds(), uniform, Src)
NewFilledGray16(r) == [Rect |-> r, Pix |-> [p \in Pts(r) |-> Gray16Convert(FillColor)]]

\* (*image.Gray16).SetGray16
SetGray16(img, px, py, v) ==
    IF <<px, py>> \in Pts(img.Rect)
    THEN [img EXCEPT !.Pix[<<px, py>>] = v]
    ELSE img

\* uint16(f) of a float64 f >= 0 given as floor(f): truncation toward zero
Uint16(n) == ToInt(n) % (MaxUint16 + 1)

NBins == 100

\* hbook.NewH1D(100, 0, 1)
NewH1D == [bins |-> [b \in 0 .. NBins - 1 |-> 0], under |-> 0, over |-> 0]

\* (*hbook.H1D).Fill(v, 1): the bin [b/100, (b+1)/100) that holds v, the
\* overflow bin from the upper edge 1 on
Fill(hist, v) ==
    IF BigCmp(v.n, MetricDen) >= 0
    THEN [hist EXCEPT !.over = @ + 1]
    ELSE [hist EXCEPT !.bins[ToInt(FloorTimes(v, NBins))] = @ + 1]

(***************************************************************************)
(* imageDiff                                                               *)
(***************************************************************************)
\* yiqDiff(img1.RGBAAt(x, y), img2.RGBAAt(x, y))
PixelDiff(i1, i2, p) == yiqDiff(RGBAAt(i1, p[1], p[2]), RGBAAt(i2, p[1], p[2]))

\* round(v * m): floor((2*v*m + 1) / 2)
RoundTimes(v, m) ==
    DropLimbs(DivSmall(BigAdd(MulSmall(v.n, 2 * m), MetricDen), 2 * max), DenLimbs)

\* a slip: dmin updated by every value, zero included
SweepPixelNoGuard(i1, i2, s, p) ==
    LET vd == PixelDiff(i1, i2, p)
    IN  [h |-> Fill(s.h, vd),
         dmin |-> MathMin(vd, s.dmin),
         dmax |-> MathMax(vd, s.dmax),
         diff |-> SetGray16(s.diff, p[1], p[2], Uint16(FloorTimes(vd, MaxUint16)))]

\* a slip: the intensity rounded to the nearest integer
SweepPixelRound(i1, i2, s, p) ==
    LET vd == PixelDiff(i1, i2, p)
    IN  [h |-> Fill(s.h, vd),
         dmin |-> IF FloatGT(vd, Num(Zero)) THEN MathMin(vd, s.dmin) ELSE s.dmin,
         dmax |-> MathMax(vd, s.dmax),
         diff |-> SetGray16(s.diff, p[1], p[2], Uint16(RoundTimes(vd, MaxUint16)))]

\* a slip: the histogram filled under the guard of dmin
SweepPixelFillGuarded(i1, i2, s, p) ==
    LET vd == PixelDiff(i1, i2, p)
    IN  [h |-> IF FloatGT(vd, Num(Zero)) THEN Fill(s.h, vd) ELSE s.h,
         dmin |-> IF FloatGT(vd, Num(Zero)) THEN MathMin(vd, s.dmin) ELSE s.dmin,
         dmax |-> MathMax(vd, s.dmax),
         diff |-> SetGray16(s.diff, p[1], p[2], Uint16(FloorTimes(vd, MaxUint16)))]

\* a slip: dmin assigned the value instead of the minimum
SweepPixelAssignMin(i1, i2, s, p) ==
    LET vd == PixelDiff(i1, i2, p)
    IN  [h |-> Fill(s.h, vd),
         dmin |-> IF FloatGT(vd, Num(Zero)) THEN vd ELSE s.dmin,
         dmax |-> MathMax(vd, s.dmax),
         diff |-> SetGray16(s.diff, p[1], p[2], Uint16(FloorTimes(vd, MaxUint16)))]

\* the body of the two loops, for the pixel p = <<x, y>>
SweepPixel(i1, i2, s, p) ==
    LET vd == PixelDiff(i1, i2, p)
    IN  [h |-> Fill(s.h, vd),
         dmin |-> IF FloatGT(vd, Num(Zero)) THEN MathMin(vd, s.dmin) ELSE s.dmin,
         dmax |-> MathMax(vd, s.dmax),
         diff |-> SetGray16(s.diff, p[1], p[2], Uint16(FloorTimes(vd, MaxUint16)))]

\* a slip: dmax starts at 0
SweepStartZeroMax(i1, i2) ==
    [h |-> NewH1D,
     dmin |-> PosMaxFloat64,
     dmax |-> Num(Zero),
     diff |-> NewFilledGray16(Union(i1.Rect, i2.Rect))]

\* a slip: the map allocated over the first image only
SweepStartFirstOnly(i1, i2) ==
    [h |-> NewH1D,
     dmin |-> PosMaxFloat64,
     dmax |-> NegMaxFloat64,
     diff |-> NewFilledGray16(i1.Rect)]

\* the state before the loops
SweepStart(i1, i2) ==
    [h |-> NewH1D,
     dmin |-> PosMaxFloat64,
     dmax |-> NegMaxFloat64,
     diff |-> NewFilledGray16(Union(i1.Rect, i2.Rect))]

\* the pixels of r in the order of the loops: x outer, y inner
RECURSIVE Columns(_, _, _)
Columns(r, px, py) ==
    IF ~(px < r.Max.X) THEN << >>
    ELSE IF ~(py < r.Max.Y) THEN Columns(r, px + 1, r.Min.Y)
    ELSE << <<px, py>> >> \o Columns(r, px, py + 1)

RECURSIVE SweepAll(_, _, _, _)
SweepAll(i1, i2, s, ps) ==
    IF ps = << >> THEN s
    ELSE SweepAll(i1, i2, SweepPixel(i1, i2, s, Head(ps)), Tail(ps))

\* imageDiff as a function of the two images: what it returns
imageDiff(i1, i2) ==
    LET b == Intersect(i1.Rect, i2.Rect)
    IN  SweepAll(i1, i2, SweepStart(i1, i2), Columns(b, b.Min.X, b.Min.Y))

VARIABLES img1, img2, pc, bnd, x, y, todo, h, dmin, dmax, diff, batch, threshold, status

vars == <<img1, img2, pc, bnd, x, y, todo, h, dmin, dmax, diff, batch, threshold, status>>

\* main has loaded the two images, NewUI is about to call imageDiff
Init ==
    /\ \E r \in Rects, pat \in Patterns : img1 = NewImage(r, pat)
    /\ \E r \in Rects, pat \in Patterns : img2 = NewImage(r, pat)
    /\ pc = "imageDiff"
    /\ bnd = ZR
    /\ x = 0
    /\ y = 0
    /\ todo = {}
    /\ h = NewH1D
    /\ dmin = Num(Zero)
    /\ dmax = Num(Zero)
    /\ diff = [Rect |-> ZR, Pix |-> << >>]
    /\ batch = FALSE
    /\ threshold = Num(Zero)
    /\ status = -1

\* imageDiff up to the loops
Setup ==
    /\ pc = "imageDiff"
    /\ \E s \in {SweepStart(img1, img2)}, b \in {Intersect(img1.Rect, img2.Rect)} :
          /\ h' = s.h
          /\ dmin' = s.dmin
          /\ dmax' = s.dmax
          /\ diff' = s.diff
          /\ bnd' = b
          /\ x' = b.Min.X
          /\ y' = b.Min.Y
          /\ todo' = Pts(b)
    /\ pc' = "loop"
    /\ UNCHANGED <<img1, img2, batch, threshold, status>>

\* one pass of the inner loop, and the step of the outer loop after the last
Pixel ==
    /\ pc = "loop"
    /\ x < bnd.Max.X
    /\ y < bnd.Max.Y
    /\ \E s \in {SweepPixel(img1, img2,
                            [h |-> h, dmin |-> dmin, dmax |-> dmax, diff |-> diff],
                            <<x, y>>)} :
          /\ h' = s.h
          /\ dmin' = s.dmin
          /\ dmax' = s.dmax
          /\ diff' = s.diff
    /\ todo' = todo \ {<<x, y>>}
    /\ IF y + 1 < bnd.Max.Y
       THEN x' = x /\ y' = y + 1
       ELSE x' = x + 1 /\ y' = bnd.Min.Y
    /\ UNCHANGED <<img1, img2, pc, bnd, batch, threshold, status>>

\* the loops are over: imageDiff returns, NewUI returns the UI to main
Return ==
    /\ pc = "loop"
    /\ ~(x < bnd.Max.X)
    /\ pc' = "main"
    /\ UNCHANGED <<img1, img2, bnd, x, y, todo, h, dmin, dmax, diff, batch, threshold, status>>

\* a slip: >= for >
ExitStatusGE(d, t) == IF FloatGT(t, d) THEN 0 ELSE 1

\* the switch of main in batch mode: os.Exit(1) when gui.dmax > *diff
ExitStatus(d, t) == IF FloatGT(d, t) THEN 1 ELSE 0

\* main with -batch and -max=t
Batch ==
    /\ pc = "main"
    /\ \E t \in Thresholds :
          /\ threshold' = t
          /\ status' = ExitStatus(dmax, t)
    /\ batch' = TRUE
    /\ pc' = "exit"
    /\ UNCHANGED <<img1, img2, bnd, x, y, todo, h, dmin, dmax, diff>>

\* main without -batch: the window is run
Gui ==
    /\ pc = "main"
    /\ pc' = "gui"
    /\ UNCHANGED <<img1, img2, bnd, x, y, todo, h, dmin, dmax, diff, batch, threshold, status>>

Next == Setup \/ Pixel \/ Return \/ Batch \/ Gui

Spec == Init /\ [][Next]_vars

(***************************************************************************)
(* The metric on its own: two images of one pixel at the origin, of any    *)
(* two colours with channels in Channels.                                  *)
(***************************************************************************)
Channels == {0, 128, 255}

Colors == { RGBA(r, g, b, 255) : r \in Channels, g \in Channels, b \in Channels }

OnePixel(c) == [Rect |-> Rect(0, 0, 1, 1), Pix |-> [p \in {<<0, 0>>} |-> c]]

InitMetric ==
    /\ \E c \in Colors : img1 = OnePixel(c)
    /\ \E c \in Colors : img2 = OnePixel(c)
    /\ pc = "imageDiff"
    /\ bnd = ZR
    /\ x = 0
    /\ y = 0
    /\ todo = {}
    /\ h = NewH1D
    /\ dmin = Num(Zero)
    /\ dmax = Num(Zero)
    /\ diff = [Rect |-> ZR, Pix |-> << >>]
    /\ batch = FALSE
    /\ threshold = Num(Zero)
    /\ status = -1

SpecMetric == InitMetric /\ [][Next]_vars

(***************************************************************************)
(* The sweep in any order: the body of the loops applied to the pixels of  *)
(* the intersection one at a time, each once, in an order left open.       *)
(***************************************************************************)
PixelAnyOrder ==
    /\ pc = "loop"
    /\ \E p \in todo :
          /\ \E s \in {SweepPixel(img1, img2,
                                  [h |-> h, dmin |-> dmin, dmax |-> dmax, diff |-> diff],
                                  p)} :
                /\ h' = s.h
                /\ dmin' = s.dmin
                /\ dmax' = s.dmax
                /\ diff' = s.diff
          /\ todo' = todo \ {p}
          /\ x' = p[1]
          /\ y' = p[2]
    /\ UNCHANGED <<img1, img2, pc, bnd, batch, threshold, status>>

ReturnAnyOrder ==
    /\ pc = "loop"
    /\ todo = {}
    /\ pc' = "main"
    /\ UNCHANGED <<img1, img2, bnd, x, y, todo, h, dmin, dmax, diff, batch, threshold, status>>

NextAnyOrder == Setup \/ PixelAnyOrder \/ ReturnAnyOrder \/ Batch \/ Gui

\* the first image covers the whole square and the second one starts at the
\* origin, so the second one is the intersection
InitAnyOrder ==
    /\ Init
    /\ img1.Rect = Rect(0, 0, GridMax, GridMax)
    /\ img2.Rect.Min = Pt(0, 0)

SpecAnyOrder == InitAnyOrder /\ [][NextAnyOrder]_vars

(***************************************************************************)
(* Properties                                                              *)
(***************************************************************************)
\* imageDiff has just returned: main holds its results and has not yet acted
Returned == pc = "main"

\* the pixel coordinates that lie in both images
Inter == Pts(img1.Rect) \cap Pts(img2.Rect)

\* the metric value of the two images at p
ValueAt(p) == yiqDiff(img1.Pix[p], img2.Pix[p])

SameRGB(p) ==
    /\ img1.Pix[p].R = img2.Pix[p].R
    /\ img1.Pix[p].G = img2.Pix[p].G
    /\ img1.Pix[p].B = img2.Pix[p].B

\* a < b on the values a float64 takes here
LessThan(a, b) ==
    \/ Rank(a) < Rank(b)
    \/ a.k = "num" /\ b.k = "num" /\ BigCmp(a.n, b.n) = -1

Finite(f) == f.k \in {"negmax", "num", "posmax"}

RECURSIVE SumBins(_, _)
SumBins(bins, n) == IF n = 0 THEN 0 ELSE bins[n - 1] + SumBins(bins, n - 1)

Least(S) == CHOOSE m \in S : \A n \in S : m <= n

Greatest(S) == CHOOSE m \in S : \A n \in S : m >= n

\* the pixels of the smallest rectangle that holds all of S
Covering(S) ==
    IF S = {} THEN {}
    ELSE LET xs == { p[1] : p \in S }
             ys == { p[2] : p \in S }
         IN  (Least(xs) .. Greatest(xs)) \X (Least(ys) .. Greatest(ys))

\* C1: in batch mode the process exits with status 1 exactly when the
\* threshold is below dmax, and with status 0 exactly when it is not.
C1_BatchVerdict ==
    pc = "exit" =>
        /\ batch
        /\ status \in {0, 1}
        /\ (status = 1) <=> LessThan(threshold, dmax)
        /\ (status = 0) <=> ~LessThan(threshold, dmax)

\* a run that passes on the boundary: the threshold equals dmax
C1_Witness ==
    /\ pc = "exit"
    /\ Inter # {}
    /\ threshold = dmax
    /\ status = 0

\* C2: once imageDiff has returned, the counts of the 100 bins add up to the
\* number of pixels of the intersection, and nothing was counted outside.
C2_HistogramConservation ==
    Returned =>
        /\ SumBins(h.bins, NBins) = Cardinality(Inter)
        /\ h.under = 0
        /\ h.over = 0

\* several pixels, spread over several bins, bin 0 among them
C2_Witness ==
    /\ Returned
    /\ Cardinality(Inter) >= 3
    /\ h.bins[0] > 0
    /\ \E b \in 1 .. NBins - 1 : h.bins[b] > 0

\* C3: the difference map covers exactly the union of the two rectangles,
\* every pixel of it outside the intersection holds the fill value, and
\* without an intersection dmax stays at its initial value.
C3_UnionBoundsSentinelOutside ==
    pc # "imageDiff" =>
        /\ Pts(diff.Rect) = Covering(Pts(img1.Rect) \cup Pts(img2.Rect))
        /\ DOMAIN diff.Pix = Pts(diff.Rect)
        /\ \A p \in Pts(diff.Rect) \ Inter : diff.Pix[p] = Gray16Convert(FillColor)
        /\ (Returned /\ Inter = {}) => dmax = NegMaxFloat64

\* the sweep is over, it wrote a non-fill value, and the map has a pixel
\* that lies in neither image
C3_Witness ==
    /\ Returned
    /\ \E p \in Inter : diff.Pix[p] # Gray16Convert(FillColor)
    /\ Pts(diff.Rect) \ (Pts(img1.Rect) \cup Pts(img2.Rect)) # {}

\* C4: dmin is never 0; after the sweep it is the smallest strictly positive
\* value of the intersection, or its initial value when there is none; where
\* all pixels of a non-empty intersection agree in R, G, B, dmax is 0.
C4_MinExcludesZero ==
    /\ pc # "imageDiff" => dmin # Num(Zero)
    /\ Returned =>
          LET pos == { v \in { ValueAt(p) : p \in Inter } : v.n # Zero }
          IN  /\ pos = {} => dmin = PosMaxFloat64
              /\ pos # {} => dmin \in pos /\ \A v \in pos : ~LessThan(v, dmin)
              /\ (Inter # {} /\ \A p \in Inter : SameRGB(p)) =>
                    dmax = Num(Zero) /\ dmin = PosMaxFloat64

\* a zero value and a positive value were both seen
C4_Witness ==
    /\ Returned
    /\ \E p \in Inter : ValueAt(p) = Num(Zero) /\ img1.Pix[p] # img2.Pix[p]
    /\ \E p \in Inter : ValueAt(p) # Num(Zero)
    /\ dmin.k = "num"

\* every pixel of a non-empty intersection is black in img1, white in img2
BlackOnWhite ==
    /\ Inter # {}
    /\ \A p \in Inter : img1.Pix[p] = Black /\ img2.Pix[p] = White

\* C5 as stated: black against white is exactly 1.0, so dmax is 1.0 and all
\* pixels are counted in bin 99.
C5_BlackWhiteIsOne ==
    (Returned /\ BlackOnWhite) =>
        /\ yiqDiff(Black, White) = Num(MetricDen)
        /\ dmax = Num(MetricDen)
        /\ h.bins[NBins - 1] = Cardinality(Inter)
        /\ \A b \in 0 .. NBins - 2 : h.bins[b] = 0

\* 0.5053 * 255.00000255^2 / 35215 = 0.93304..., as a numerator over MetricDen
BlackWhiteValue == Num(<< 1325, 2857, 2653, 5714, 1331, 2857, 3 >>)

\* C5 amended: black against white is 0.93304..., below 1; dmax is that
\* value, all pixels are counted in bin 93 and the map holds 61147.
C5_BlackWhiteBelowOne ==
    (Returned /\ BlackOnWhite) =>
        /\ dmax = BlackWhiteValue
        /\ LessThan(dmax, Num(MetricDen))
        /\ h.bins[93] = Cardinality(Inter)
        /\ \A b \in (0 .. NBins - 1) \ {93} : h.bins[b] = 0
        /\ \A p \in Inter : diff.Pix[p] = 61147

C5_Witness ==
    /\ Returned
    /\ BlackOnWhite
    /\ Cardinality(Inter) >= 2
    /\ h.bins[93] = Cardinality(Inter)

\* C6: the value of every pixel pair lies in [0, 1], and the intensity
\* written for it is floor(v * 65535) itself, within 0..65535.
C6_MetricInUnitRange ==
    pc # "imageDiff" =>
        \A p \in Inter :
            LET v == ValueAt(p)
            IN  /\ v.k = "num"
                /\ BigCmp(v.n, MetricDen) <= 0
                /\ BigCmp(FloorTimes(v, MaxUint16), FromInt(MaxUint16)) <= 0
                /\ p \notin todo => diff.Pix[p] = ToInt(FloorTimes(v, MaxUint16))

\* the largest value there is, red against cyan, has been written
C6_Witness ==
    /\ Returned
    /\ \E p \in Inter :
          /\ img1.Pix[p] = Red
          /\ img2.Pix[p] = Cyan
          /\ diff.Pix[p] = 65534
          /\ \A c1 \in Colors, c2 \in Colors : ~LessThan(ValueAt(p), yiqDiff(c1, c2))

\* C7 as stated: no pixel outside the intersection holds the same value as
\* a pixel inside it.
C7_SentinelDistinct ==
    Returned => \A p \in Pts(diff.Rect) \ Inter : \A q \in Inter : diff.Pix[p] # diff.Pix[q]

\* C7 amended: the fill value is intensity 0, the value also stored for a
\* pixel whose difference is zero.
C7_SentinelIsZero ==
    pc # "imageDiff" =>
        /\ \A p \in Pts(diff.Rect) \ Inter : diff.Pix[p] = 0
        /\ \A q \in Inter \ todo : SameRGB(q) => diff.Pix[q] = 0

C7_Witness ==
    /\ Returned
    /\ Pts(diff.Rect) \ Inter # {}
    /\ \E q \in Inter : SameRGB(q)
    /\ \E q \in Inter : diff.Pix[q] # 0

\* C8 as stated: the stored intensity is the value times 65535, rounded to
\* the nearest integer.
C8_StoredIsRounded ==
    Returned => \A p \in Inter : diff.Pix[p] = ToInt(RoundTimes(ValueAt(p), MaxUint16))

\* C8 amended: the stored intensity d is the value times 65535 truncated:
\* d <= v * 65535 < d + 1.
C8_StoredIsTruncated ==
    Returned =>
        \A p \in Inter :
            LET d == diff.Pix[p]
                scaled == MulSmall(ValueAt(p).n, MaxUint16)
            IN  /\ d \in 0 .. MaxUint16
                /\ BigCmp(MulSmall(MetricDen, d), scaled) <= 0
                /\ BigCmp(scaled, MulSmall(MetricDen, d + 1)) = -1

\* a pixel whose scaled value has a fraction of a half or more
C8_Witness ==
    /\ Returned
    /\ \E p \in Inter :
          /\ diff.Pix[p] = 65534
          /\ BigCmp(MulSmall(ValueAt(p).n, 2 * MaxUint16),
                    MulSmall(MetricDen, 2 * 65534 + 1)) >= 0

\* C9: without an intersection no pixel is visited, the histogram stays
\* empty, dmin and dmax keep their initial values, and a batch run exits
\* with status 0 for every finite threshold.
C9_EmptyIntersectionPasses ==
    (pc # "imageDiff" /\ Inter = {}) =>
        /\ todo = {}
        /\ h = NewH1D
        /\ dmin = PosMaxFloat64
        /\ dmax = NegMaxFloat64
        /\ (pc = "exit" /\ Finite(threshold)) => status = 0

\* two non-empty images that do not overlap, and the lowest finite threshold
C9_Witness ==
    /\ pc = "exit"
    /\ Pts(img1.Rect) # {}
    /\ Pts(img2.Rect) # {}
    /\ Inter = {}
    /\ threshold = NegMaxFloat64
    /\ status = 0

\* C10: whatever the order in which the pixels of the intersection are
\* visited, each once, the result is the one of the order of the code.
C10_OrderIndependent ==
    Returned => [h |-> h, dmin |-> dmin, dmax |-> dmax, diff |-> diff] = imageDiff(img1, img2)

\* an order that ends with the pixel the code visits first, over pixels of
\* different values
C10_Witness ==
    /\ Returned
    /\ Cardinality(Inter) >= 3
    /\ x = bnd.Min.X
    /\ y = bnd.Min.Y
    /\ dmin.k = "num"
    /\ dmin # dmax

====
